---- MODULE Spec2Model ----
(***************************************************************************)
(* State-machine model of slorz (src/src/lib.rs): the session state held   *)
(* in Model.data and the message handler `update`.  One action per Msg     *)
(* variant; every action is the whole match arm of `update`.               *)
(*                                                                         *)
(* Conventions                                                             *)
(*   - text (Rust String) is a sequence of one-character strings;          *)
(*   - Option<T> / Result<T,_> is a sequence: <<>> is None / Err,          *)
(*     <<v>> is Some(v) / Ok(v);                                           *)
(*   - NaiveDate is an integer day number, NaiveTime (whole minutes, as    *)
(*     "%H:%M" yields) is minutes since midnight;                          *)
(*   - Uuid::new_v4() is the next value of a counter (fresh, never reused).*)
(***************************************************************************)
EXTENDS Integers, Sequences, FiniteSets, TLC

\* Number of messages handled in one session of the model.
MaxSteps == 5

\* The local calendar date at start-up (init, `current_date`).
Today == 10

VARIABLES
    current_date,              \* Data.current_date
    new_task,                  \* Data.new_task: [name, quantity] (text buffers)
    current_date_bedtime,      \* Data.current_date_bedtime: [time, is_next_day]
    planned_work_periods,      \* Data.planned_work_periods: Seq of [id, name]
    default_work_sleep_goals,  \* Data.default_work_sleep_goals
    work_sleep_data,           \* Data.work_sleep_data: [week_start, data]
    next_uuid,                 \* the next identifier Uuid::new_v4() hands out
    panicked,                  \* TRUE once a handler has panicked (expect on Err)
    msg,                       \* the message `update` handled last
    steps                      \* number of messages handled so far

vars == <<current_date, new_task, current_date_bedtime, planned_work_periods,
          default_work_sleep_goals, work_sleep_data, next_uuid, panicked, msg, steps>>

\* The session state proper (everything in Model.data).
data_vars == <<current_date, new_task, current_date_bedtime, planned_work_periods,
               default_work_sleep_goals, work_sleep_data>>

----------------------------------------------------------------------------
(* Option / Result *)

None == <<>>

Some(v) == <<v>>

IsSome(o) == Len(o) = 1

Unwrap(o) == o[1]

----------------------------------------------------------------------------
(* Text parsing *)

\* char::to_digit(10): the digit's value, or -1 for a character that is no digit.
DigitOf(c) ==
    CASE c = "0" -> 0 [] c = "1" -> 1 [] c = "2" -> 2 [] c = "3" -> 3
      [] c = "4" -> 4 [] c = "5" -> 5 [] c = "6" -> 6 [] c = "7" -> 7
      [] c = "8" -> 8 [] c = "9" -> 9 [] OTHER -> -1

IsDigit(c) == DigitOf(c) >= 0

AllDigits(s) == \A i \in 1..Len(s) : IsDigit(s[i])

RECURSIVE DecimalValue(_)
DecimalValue(s) ==
    IF Len(s) = 0 THEN 0
    ELSE 10 * DecimalValue(SubSeq(s, 1, Len(s) - 1)) + DigitOf(s[Len(s)])

\* str::parse::<i64>(): an optional sign followed by one or more decimal
\* digits and nothing else.  (The texts of the model are far shorter than
\* the 19 digits at which the conversion overflows.)
ParseI64(s) ==
    IF Len(s) = 0 THEN None
    ELSE LET signed == Head(s) \in {"+", "-"}
             digits == IF signed THEN Tail(s) ELSE s
         IN  IF Len(digits) = 0 \/ ~AllDigits(digits) THEN None
             ELSE IF Head(s) = "-" THEN Some(0 - DecimalValue(digits))
             ELSE Some(DecimalValue(digits))

RECURSIVE TrimLeft(_)
TrimLeft(s) ==
    IF Len(s) > 0 /\ Head(s) = " " THEN TrimLeft(Tail(s)) ELSE s

\* Length of the run of digits (at most two) a "%H" or "%M" item consumes.
NumWidth(s) ==
    IF Len(s) >= 2 /\ IsDigit(s[1]) /\ IsDigit(s[2]) THEN 2
    ELSE IF Len(s) >= 1 /\ IsDigit(s[1]) THEN 1
    ELSE 0

\* NaiveTime::parse_from_str(s, "%H:%M"): each numeric item skips leading
\* white space and takes one or two digits, the literal ":" must match, no
\* input may remain, the hour is 0..23 and the minute 0..59.
ParseTime(s) ==
    LET s1 == TrimLeft(s)
        w1 == NumWidth(s1)
        s2 == SubSeq(s1, w1 + 1, Len(s1))
        s3 == IF Len(s2) > 0 THEN TrimLeft(Tail(s2)) ELSE <<>>
        w2 == NumWidth(s3)
        hh == DecimalValue(SubSeq(s1, 1, w1))
        mm == DecimalValue(SubSeq(s3, 1, w2))
    IN  IF w1 = 0 THEN None
        ELSE IF Len(s2) = 0 \/ Head(s2) # ":" THEN None
        ELSE IF w2 = 0 \/ Len(s3) # w2 THEN None
        ELSE IF hh > 23 \/ mm > 59 THEN None
        ELSE Some(hh * 60 + mm)

----------------------------------------------------------------------------
(* Payloads the messages of the model carry *)

Dates == {Today - 1, Today, Today + 1}

NameTexts == {<<"a">>}

QuantityTexts == {<<"2">>, <<"0">>, <<"x">>}

BedtimeTexts == {<<"0", "0", ":", "3", "0">>, <<"2", "5", ":", "0", "0">>}

BalanceTexts == {<<"5", "0">>, <<"a", "b", "c">>}

TargetWorkTexts == {<<"3">>, <<"0">>, <<>>}

TargetBedtimeTexts == {<<"2", "2", ":", "3", "0">>, <<"1", "0", "p", "m">>}

HalflifeTexts == {<<"6", "0">>, <<"1", ".", "5">>}

----------------------------------------------------------------------------
(* WorkSleepData *)

\* BTreeMap::get
Get(data, date) == IF date \in DOMAIN data THEN Some(data[date]) ELSE None

\* The record get_mut_or_create inserts for an absent date.
NewWorkSleep(work_sleep_goals) ==
    [goals |-> work_sleep_goals, actual_work_count |-> 0, actual_bedtime |-> None]

\* get_mut_or_create written with insert(..) for entry(..).or_insert(..): an
\* existing record is replaced by a fresh one.
get_mut_or_create_insert(data, date, work_sleep_goals) ==
    [d \in DOMAIN data \cup {date} |->
        IF d = date THEN NewWorkSleep(work_sleep_goals) ELSE data[d]]

\* WorkSleepData::get_mut_or_create: the map after entry(date).or_insert(..).
get_mut_or_create(data, date, work_sleep_goals) ==
    IF date \in DOMAIN data THEN data
    ELSE [d \in DOMAIN data \cup {date} |->
            IF d = date THEN NewWorkSleep(work_sleep_goals) ELSE data[d]]

\* set_to_default_goals overwriting the snapshot of every record.
set_to_default_goals_all(data, date, work_sleep_goals) ==
    LET created == get_mut_or_create(data, date, work_sleep_goals)
    IN  [d \in DOMAIN created |-> [created[d] EXCEPT !.goals = work_sleep_goals]]

\* set_to_default_goals replacing the record instead of its goals field.
set_to_default_goals_replace(data, date, work_sleep_goals) ==
    [get_mut_or_create(data, date, work_sleep_goals)
        EXCEPT ![date] = NewWorkSleep(work_sleep_goals)]

\* WorkSleepData::set_to_default_goals
set_to_default_goals(data, date, work_sleep_goals) ==
    [get_mut_or_create(data, date, work_sleep_goals)
        EXCEPT ![date].goals = work_sleep_goals]

\* The greatest key of the map, self.data.iter().rev().next()
LastDate(data) == CHOOSE d \in DOMAIN data : \A e \in DOMAIN data : e <= d

\* set_week_start comparing with < for <=.
set_week_start_strict(data, date) ==
    LET is_latest == IF DOMAIN data # {} THEN LastDate(data) < date ELSE TRUE
    IN  IF is_latest THEN date - 6 ELSE date - 3

\* WorkSleepData::set_week_start: the new week_start.
set_week_start(data, date) ==
    LET is_latest == IF DOMAIN data # {} THEN LastDate(data) <= date ELSE TRUE
    IN  IF is_latest THEN date - 6 ELSE date - 3

\* get_current_week stepping to the next day before it pushes.
get_current_week_succ_first(wsd) ==
    [i \in 1..7 |-> <<wsd.week_start + i, Get(wsd.data, wsd.week_start + i)>>]

\* WorkSleepData::get_current_week
get_current_week(wsd) ==
    [i \in 1..7 |-> <<wsd.week_start + (i - 1), Get(wsd.data, wsd.week_start + (i - 1))>>]

----------------------------------------------------------------------------
(* Initial state: fn init *)

Init ==
    /\ current_date = Today
    /\ new_task = [name |-> <<>>, quantity |-> <<"1">>]
    /\ planned_work_periods = <<>>
    /\ current_date_bedtime = [time |-> <<>>, is_next_day |-> FALSE]
    /\ default_work_sleep_goals =
          [work_sleep_balance |-> 70,
           target_work_count |-> 6,
           target_bedtime |-> [time |-> 23 * 60, next_day |-> FALSE],
           bedtime_pts_halflife |-> 30]
    /\ work_sleep_data = [week_start |-> Today - 6, data |-> <<>>]
    /\ next_uuid = 1
    /\ panicked = FALSE
    /\ msg = [type |-> "Init", arg |-> <<>>]
    /\ steps = 0

----------------------------------------------------------------------------
(* TaskQueue helpers (VecDeque) *)

\* iter().position(|wp| wp.id == id): the least index holding id, or None.
position(q, id) ==
    IF \E i \in 1..Len(q) : q[i].id = id
    THEN Some(CHOOSE i \in 1..Len(q) : q[i].id = id /\ \A j \in 1..(i - 1) : q[j].id # id)
    ELSE None

\* VecDeque::retain(|wp| wp.id != id)
RECURSIVE retain_not(_, _)
retain_not(q, id) ==
    IF Len(q) = 0 THEN <<>>
    ELSE IF Head(q).id # id THEN <<Head(q)>> \o retain_not(Tail(q), id)
    ELSE retain_not(Tail(q), id)

\* VecDeque::remove(i): the queue without its i-th entry.
remove_at(q, i) == SubSeq(q, 1, i - 1) \o SubSeq(q, i + 1, Len(q))

\* VecDeque::swap(i, j)
swap(q, i, j) == [q EXCEPT ![i] = q[j], ![j] = q[i]]

\* pop_back for pop_front.
pop_front_as_pop_back(q) == IF Len(q) = 0 THEN q ELSE SubSeq(q, 1, Len(q) - 1)

\* VecDeque::pop_front: the queue without its head; an empty queue stays empty.
pop_front(q) == IF Len(q) = 0 THEN q ELSE Tail(q)

\* The loop of Msg::AddNewTask with push_front for push_back.
RECURSIVE push_new_front(_, _, _, _)
push_new_front(q, name, first_id, quantity) ==
    IF quantity <= 0 THEN q
    ELSE push_new_front(<<[id |-> first_id, name |-> name]>> \o q, name,
                        first_id + 1, quantity - 1)

\* The loop of Msg::AddNewTask: `quantity` push_back calls, each with a fresh
\* id; 0..quantity is empty when quantity <= 0.
RECURSIVE push_new(_, _, _, _)
push_new(q, name, first_id, quantity) ==
    IF quantity <= 0 THEN q
    ELSE push_new(Append(q, [id |-> first_id, name |-> name]), name,
                  first_id + 1, quantity - 1)

----------------------------------------------------------------------------
(* update: one action per Msg variant *)

\* A message is accepted while the session is alive and within the model's length.
Accepts == ~panicked /\ steps < MaxSteps

\* Bookkeeping common to every handler that returns normally.
Handled(type, arg) ==
    /\ msg' = [type |-> type, arg |-> arg]
    /\ steps' = steps + 1
    /\ panicked' = FALSE

\* A handler that panics (Result::expect on Err): the assignment it was about
\* to make is not made and the session handles no further message.
Panics(type, arg) ==
    /\ msg' = [type |-> type, arg |-> arg]
    /\ steps' = steps + 1
    /\ panicked' = TRUE
    /\ UNCHANGED <<data_vars, next_uuid>>

SetCurrentDate ==
    /\ Accepts
    /\ \E date \in Dates :
        /\ current_date' = date
        /\ work_sleep_data' =
              [work_sleep_data EXCEPT
                 !.week_start = set_week_start(work_sleep_data.data, date)]
        /\ Handled("SetCurrentDate", <<date>>)
    /\ UNCHANGED <<new_task, current_date_bedtime, planned_work_periods,
                   default_work_sleep_goals, next_uuid>>

AddNewTask ==
    /\ Accepts
    /\ LET parsed == ParseI64(new_task.quantity)
           quantity == IF IsSome(parsed) THEN Unwrap(parsed) ELSE 1
           added == IF quantity > 0 THEN quantity ELSE 0
       IN  /\ planned_work_periods' =
                 push_new(planned_work_periods, new_task.name, next_uuid, quantity)
           /\ next_uuid' = next_uuid + added
    /\ Handled("AddNewTask", <<>>)
    /\ UNCHANGED <<current_date, new_task, current_date_bedtime,
                   default_work_sleep_goals, work_sleep_data>>

\* Identifiers a task message may carry: every identifier handed out so far
\* (queued or already removed) and one that was never handed out.
Uuids == 1..next_uuid

\* Msg::DeleteTask counting the deletion of the head as its completion.
DeleteTask_head_counts ==
    /\ Accepts
    /\ \E id \in Uuids :
        /\ planned_work_periods' = retain_not(planned_work_periods, id)
        /\ work_sleep_data' =
              IF planned_work_periods # <<>> /\ Head(planned_work_periods).id = id
              THEN LET data == get_mut_or_create(work_sleep_data.data, current_date,
                                                 default_work_sleep_goals)
                   IN  [work_sleep_data EXCEPT
                          !.data = [data EXCEPT ![current_date].actual_work_count = @ + 1]]
              ELSE work_sleep_data
        /\ Handled("DeleteTask", <<id>>)
    /\ UNCHANGED <<current_date, new_task, current_date_bedtime,
                   default_work_sleep_goals, next_uuid>>

DeleteTask ==
    /\ Accepts
    /\ \E id \in Uuids :
        /\ planned_work_periods' = retain_not(planned_work_periods, id)
        /\ Handled("DeleteTask", <<id>>)
    /\ UNCHANGED <<current_date, new_task, current_date_bedtime,
                   default_work_sleep_goals, work_sleep_data, next_uuid>>

\* Msg::MoveTaskToTop with the entry exchanged with the head (swap(i, 0)) for
\* remove(i) and push_front.
move_to_top_by_swap(q, id) ==
    LET i == position(q, id)
    IN  IF IsSome(i) THEN swap(q, Unwrap(i), 1) ELSE q

\* The queue Msg::MoveTaskToTop leaves: remove(i) and push_front of the entry
\* at the position of id, the queue as it was when id is not in it.
move_to_top(q, id) ==
    LET i == position(q, id)
    IN  IF IsSome(i) THEN <<q[Unwrap(i)]>> \o remove_at(q, Unwrap(i)) ELSE q

\* Msg::MoveTaskUp moving the entry to the front.
move_up_to_front(q, id) ==
    LET i == position(q, id)
    IN  IF IsSome(i) THEN <<q[Unwrap(i)]>> \o remove_at(q, Unwrap(i)) ELSE q

\* The queue Msg::MoveTaskUp leaves: swap(i, j) with j = i.checked_sub(1), the
\* queue as it was when id is not in it or is its head.
move_up(q, id) ==
    LET i == position(q, id)
    IN  IF IsSome(i) /\ Unwrap(i) - 1 >= 1 THEN swap(q, Unwrap(i), Unwrap(i) - 1) ELSE q

MoveTaskToTop ==
    /\ Accepts
    /\ \E id \in Uuids :
        /\ planned_work_periods' = move_to_top(planned_work_periods, id)
        /\ Handled("MoveTaskToTop", <<id>>)
    /\ UNCHANGED <<current_date, new_task, current_date_bedtime,
                   default_work_sleep_goals, work_sleep_data, next_uuid>>

MoveTaskUp ==
    /\ Accepts
    /\ \E id \in Uuids :
        /\ planned_work_periods' = move_up(planned_work_periods, id)
        /\ Handled("MoveTaskUp", <<id>>)
    /\ UNCHANGED <<current_date, new_task, current_date_bedtime,
                   default_work_sleep_goals, work_sleep_data, next_uuid>>

\* Msg::FinishedTopTask re-deriving the week window after the increment.
FinishedTopTask_set_week_start ==
    /\ Accepts
    /\ planned_work_periods' = pop_front(planned_work_periods)
    /\ LET data == get_mut_or_create(work_sleep_data.data, current_date,
                                     default_work_sleep_goals)
           counted == [data EXCEPT ![current_date].actual_work_count = @ + 1]
       IN  work_sleep_data' =
             [week_start |-> set_week_start(counted, current_date), data |-> counted]
    /\ Handled("FinishedTopTask", <<>>)
    /\ UNCHANGED <<current_date, new_task, current_date_bedtime,
                   default_work_sleep_goals, next_uuid>>

FinishedTopTask ==
    /\ Accepts
    /\ planned_work_periods' = pop_front(planned_work_periods)
    /\ LET data == get_mut_or_create(work_sleep_data.data, current_date,
                                     default_work_sleep_goals)
       IN  work_sleep_data' =
             [work_sleep_data EXCEPT
                !.data = [data EXCEPT ![current_date].actual_work_count = @ + 1]]
    /\ Handled("FinishedTopTask", <<>>)
    /\ UNCHANGED <<current_date, new_task, current_date_bedtime,
                   default_work_sleep_goals, next_uuid>>

NewTaskNameChanged ==
    /\ Accepts
    /\ \E s \in NameTexts :
        /\ new_task' = [new_task EXCEPT !.name = s]
        /\ Handled("NewTaskNameChanged", s)
    /\ UNCHANGED <<current_date, current_date_bedtime, planned_work_periods,
                   default_work_sleep_goals, work_sleep_data, next_uuid>>

NewTaskQuantityChanged ==
    /\ Accepts
    /\ \E s \in QuantityTexts :
        /\ new_task' = [new_task EXCEPT !.quantity = s]
        /\ Handled("NewTaskQuantityChanged", s)
    /\ UNCHANGED <<current_date, current_date_bedtime, planned_work_periods,
                   default_work_sleep_goals, work_sleep_data, next_uuid>>

CurrentDateBedtimeChanged ==
    /\ Accepts
    /\ \E s \in BedtimeTexts :
        /\ current_date_bedtime' = [current_date_bedtime EXCEPT !.time = s]
        /\ Handled("CurrentDateBedtimeChanged", s)
    /\ UNCHANGED <<current_date, new_task, planned_work_periods,
                   default_work_sleep_goals, work_sleep_data, next_uuid>>

CurrentDateBedtimeNextDayChanged ==
    /\ Accepts
    /\ current_date_bedtime' =
          [current_date_bedtime EXCEPT !.is_next_day = ~current_date_bedtime.is_next_day]
    /\ Handled("CurrentDateBedtimeNextDayChanged", <<>>)
    /\ UNCHANGED <<current_date, new_task, planned_work_periods,
                   default_work_sleep_goals, work_sleep_data, next_uuid>>

\* Msg::UpdateBedtime calling get_mut_or_create before it parses: the record
\* is created even when the text is no time.
UpdateBedtime_create_first ==
    /\ Accepts
    /\ LET time == ParseTime(current_date_bedtime.time)
           data == get_mut_or_create(work_sleep_data.data, current_date,
                                     default_work_sleep_goals)
       IN  work_sleep_data' =
             IF IsSome(time)
             THEN [work_sleep_data EXCEPT
                     !.data = [data EXCEPT ![current_date].actual_bedtime =
                                 Some([time |-> Unwrap(time),
                                       next_day |-> current_date_bedtime.is_next_day])]]
             ELSE [work_sleep_data EXCEPT !.data = data]
    /\ Handled("UpdateBedtime", <<>>)
    /\ UNCHANGED <<current_date, new_task, current_date_bedtime, planned_work_periods,
                   default_work_sleep_goals, next_uuid>>

UpdateBedtime ==
    /\ Accepts
    /\ LET time == ParseTime(current_date_bedtime.time)
           data == get_mut_or_create(work_sleep_data.data, current_date,
                                     default_work_sleep_goals)
       IN  work_sleep_data' =
             IF IsSome(time)
             THEN [work_sleep_data EXCEPT
                     !.data = [data EXCEPT ![current_date].actual_bedtime =
                                 Some([time |-> Unwrap(time),
                                       next_day |-> current_date_bedtime.is_next_day])]]
             ELSE work_sleep_data
    /\ Handled("UpdateBedtime", <<>>)
    /\ UNCHANGED <<current_date, new_task, current_date_bedtime, planned_work_periods,
                   default_work_sleep_goals, next_uuid>>

\* week_start += Duration::weeks(1)
next_week(week_start) == week_start + 7

\* Six days back for a week.
previous_week_six_days(week_start) == week_start - 6

\* week_start -= Duration::weeks(1)
previous_week(week_start) == week_start - 7

ViewNextWeek ==
    /\ Accepts
    /\ work_sleep_data' = [work_sleep_data EXCEPT !.week_start = next_week(@)]
    /\ Handled("ViewNextWeek", <<>>)
    /\ UNCHANGED <<current_date, new_task, current_date_bedtime, planned_work_periods,
                   default_work_sleep_goals, next_uuid>>

ViewPreviousWeek ==
    /\ Accepts
    /\ work_sleep_data' = [work_sleep_data EXCEPT !.week_start = previous_week(@)]
    /\ Handled("ViewPreviousWeek", <<>>)
    /\ UNCHANGED <<current_date, new_task, current_date_bedtime, planned_work_periods,
                   default_work_sleep_goals, next_uuid>>

\* The re-sync run before the default goals are assigned: the record gets the
\* goals as they were.
SetGoals_resync_first(goals) ==
    /\ default_work_sleep_goals' = goals
    /\ work_sleep_data' =
          [work_sleep_data EXCEPT
             !.data = set_to_default_goals(work_sleep_data.data, current_date,
                                           default_work_sleep_goals)]
    /\ UNCHANGED <<current_date, new_task, current_date_bedtime, planned_work_periods,
                   next_uuid>>

\* The tail shared by the goal setters: the default goals become `goals` and
\* set_to_default_goals copies them into the current date's record.
SetGoals(goals) ==
    /\ default_work_sleep_goals' = goals
    /\ work_sleep_data' =
          [work_sleep_data EXCEPT
             !.data = set_to_default_goals(work_sleep_data.data, current_date, goals)]
    /\ UNCHANGED <<current_date, new_task, current_date_bedtime, planned_work_periods,
                   next_uuid>>

SetWorkSleepBalance ==
    /\ Accepts
    /\ \E s \in BalanceTexts :
        LET parsed == ParseI64(s)
        IN  IF IsSome(parsed)
            THEN /\ SetGoals([default_work_sleep_goals EXCEPT
                                !.work_sleep_balance = Unwrap(parsed)])
                 /\ Handled("SetWorkSleepBalance", s)
            ELSE Panics("SetWorkSleepBalance", s)

SetTargetWorkCount ==
    /\ Accepts
    /\ \E s \in TargetWorkTexts :
        LET parsed == ParseI64(s)
        IN  IF IsSome(parsed)
            THEN /\ SetGoals([default_work_sleep_goals EXCEPT
                                !.target_work_count = Unwrap(parsed)])
                 /\ Handled("SetTargetWorkCount", s)
            ELSE Panics("SetTargetWorkCount", s)

TargetBedtimeChanged ==
    /\ Accepts
    /\ \E s \in TargetBedtimeTexts :
        LET time == ParseTime(s)
        IN  /\ IF IsSome(time)
               THEN SetGoals([default_work_sleep_goals EXCEPT
                                !.target_bedtime.time = Unwrap(time)])
               ELSE UNCHANGED <<data_vars, next_uuid>>
            /\ Handled("TargetBedtimeChanged", s)

TargetBedtimeNextDayChanged ==
    /\ Accepts
    /\ SetGoals([default_work_sleep_goals EXCEPT
                   !.target_bedtime.next_day = ~default_work_sleep_goals.target_bedtime.next_day])
    /\ Handled("TargetBedtimeNextDayChanged", <<>>)

SetBedtimePointsHalflife ==
    /\ Accepts
    /\ \E s \in HalflifeTexts :
        LET parsed == ParseI64(s)
        IN  IF IsSome(parsed)
            THEN /\ SetGoals([default_work_sleep_goals EXCEPT
                                !.bedtime_pts_halflife = Unwrap(parsed)])
                 /\ Handled("SetBedtimePointsHalflife", s)
            ELSE Panics("SetBedtimePointsHalflife", s)

Next ==
    \/ SetCurrentDate
    \/ AddNewTask
    \/ DeleteTask
    \/ MoveTaskToTop
    \/ MoveTaskUp
    \/ FinishedTopTask
    \/ NewTaskNameChanged
    \/ NewTaskQuantityChanged
    \/ CurrentDateBedtimeChanged
    \/ CurrentDateBedtimeNextDayChanged
    \/ UpdateBedtime
    \/ ViewNextWeek
    \/ ViewPreviousWeek
    \/ SetWorkSleepBalance
    \/ SetTargetWorkCount
    \/ TargetBedtimeChanged
    \/ TargetBedtimeNextDayChanged
    \/ SetBedtimePointsHalflife

Spec == Init /\ [][Next]_vars

----------------------------------------------------------------------------
(* Bedtime::abs_diff and WorkSleep::calc_score                               *)
(*                                                                           *)
(* The score is computed in f64.  The model computes it in exact rational    *)
(* arithmetic, a rational being <<numerator, denominator>> with a positive   *)
(* denominator, which is what f64 yields when the exponent of the decay is a *)
(* whole number of half-lives and the numbers are as small as the model's:   *)
(* the halves are exact in f64 and every other sum is further from a half    *)
(* than f64's rounding error.                                                *)

\* Most half-lives of deviation the model computes a score for.
MaxHalvings == 4

\* i64::abs
AbsVal(x) == IF x < 0 THEN 0 - x ELSE x

\* Duration::days(1).num_minutes()
one_day == 1440

\* Bedtime::abs_diff taken on the clock times alone.
abs_diff_clock_only(self, other) == AbsVal(other.time - self.time)

\* Bedtime::abs_diff
abs_diff(self, other) ==
    AbsVal((other.time - self.time)
              + (IF other.next_day THEN one_day ELSE 0)
              - (IF self.next_day THEN one_day ELSE 0))

\* The exponent of the decay is a whole number of half-lives, at most MaxHalvings.
WholeHalvings(ws) ==
    IF IsSome(ws.actual_bedtime)
    THEN LET dist == abs_diff(Unwrap(ws.actual_bedtime), ws.goals.target_bedtime)
         IN  /\ ws.goals.bedtime_pts_halflife > 0
             /\ dist % ws.goals.bedtime_pts_halflife = 0
             /\ dist \div ws.goals.bedtime_pts_halflife <= MaxHalvings
    ELSE TRUE

\* work_score of calc_score
work_score(ws) ==
    <<ws.actual_work_count * ws.goals.work_sleep_balance, ws.goals.target_work_count>>

\* sleep_score weighted with the work points.
sleep_score_work_points(ws) ==
    IF IsSome(ws.actual_bedtime)
    THEN LET dist == abs_diff(Unwrap(ws.actual_bedtime), ws.goals.target_bedtime)
         IN  <<ws.goals.work_sleep_balance, 2 ^ (dist \div ws.goals.bedtime_pts_halflife)>>
    ELSE <<0, 1>>

\* sleep_score of calc_score, for a whole number of half-lives:
\* (100 - balance) * 0.5^(dist / halflife), and 0.0 without a bedtime.
sleep_score(ws) ==
    IF IsSome(ws.actual_bedtime)
    THEN LET dist == abs_diff(Unwrap(ws.actual_bedtime), ws.goals.target_bedtime)
         IN  <<100 - ws.goals.work_sleep_balance,
               2 ^ (dist \div ws.goals.bedtime_pts_halflife)>>
    ELSE <<0, 1>>

\* work_score + sleep_score
rational_sum(x, y) == <<x[1] * y[2] + y[1] * x[2], x[2] * y[2]>>

\* `as i64` without round(): truncation toward zero.
round_truncating(x) ==
    IF x[1] >= 0 THEN x[1] \div x[2] ELSE 0 - ((0 - x[1]) \div x[2])

\* f64::round: to the nearest integer, halves away from zero.
round(x) ==
    IF x[1] >= 0 THEN (2 * x[1] + x[2]) \div (2 * x[2])
    ELSE 0 - ((2 * (0 - x[1]) + x[2]) \div (2 * x[2]))

\* WorkSleep::calc_score
calc_score(ws) == round(rational_sum(work_score(ws), sleep_score(ws)))

\* The values WorkSleep::show_score_calc formats, in their order; nothing
\* ("(no bedtime data)") without a bedtime.
show_score_calc(ws) ==
    IF IsSome(ws.actual_bedtime)
    THEN <<ws.goals.work_sleep_balance, ws.actual_work_count, ws.goals.target_work_count,
           100 - ws.goals.work_sleep_balance,
           abs_diff(Unwrap(ws.actual_bedtime), ws.goals.target_bedtime),
           ws.goals.bedtime_pts_halflife, calc_score(ws)>>
    ELSE <<>>

----------------------------------------------------------------------------
(* The score of one day as the view shows it: a session whose current date   *)
(* holds a record with goals and actuals drawn from the sets below, and the  *)
(* two view functions that compute on it.                                    *)

ScoreBalances == {70, 50, -10}

ScoreTargetCounts == {6, 4}

ScoreWorkCounts == {0, 1, 6}

ScoreHalflives == {30, 45, 90}

\* 00:00, 00:30, 11:30, 22:30, 23:00, 23:59
ScoreTimes == {0, 30, 690, 1350, 1380, 1439}

ScoreBedtimes == [time : ScoreTimes, next_day : BOOLEAN]

ScoreGoals ==
    [work_sleep_balance : ScoreBalances, target_work_count : ScoreTargetCounts,
     target_bedtime : ScoreBedtimes, bedtime_pts_halflife : ScoreHalflives]

ScoreRecords ==
    [goals : ScoreGoals, actual_work_count : ScoreWorkCounts,
     actual_bedtime : {None} \cup {Some(b) : b \in ScoreBedtimes}]

ScoreInit ==
    /\ current_date = Today
    /\ new_task = [name |-> <<>>, quantity |-> <<"1">>]
    /\ planned_work_periods = <<>>
    /\ current_date_bedtime = [time |-> <<>>, is_next_day |-> FALSE]
    /\ \E ws \in ScoreRecords :
          /\ default_work_sleep_goals = ws.goals
          /\ work_sleep_data = [week_start |-> Today - 6, data |-> [d \in {Today} |-> ws]]
    /\ next_uuid = 1
    /\ panicked = FALSE
    /\ msg = [type |-> "Init", arg |-> <<>>]
    /\ steps = 0

\* view_work_sleep_data_one_day: "Score: {}" of the current date's record.
ViewScore ==
    /\ WholeHalvings(work_sleep_data.data[current_date])
    /\ msg' = [type |-> "calc_score",
               arg |-> <<calc_score(work_sleep_data.data[current_date])>>]
    /\ UNCHANGED <<data_vars, next_uuid, panicked, steps>>

\* view_current_date_score_calculation: show_score_calc of the current date's record.
ViewScoreCalculation ==
    /\ WholeHalvings(work_sleep_data.data[current_date])
    /\ msg' = [type |-> "show_score_calc",
               arg |-> show_score_calc(work_sleep_data.data[current_date])]
    /\ UNCHANGED <<data_vars, next_uuid, panicked, steps>>

ScoreNext ==
    \/ ViewScore
    \/ ViewScoreCalculation

ScoreSpec == ScoreInit /\ [][ScoreNext]_vars

----------------------------------------------------------------------------
(* Vocabulary of the properties.  In an action formula the unprimed          *)
(* variables are the state a message found and the primed ones the state     *)
(* its handler left; msg' is that message.                                   *)

Store == work_sleep_data.data

WeekStart == work_sleep_data.week_start

NumericGoalMsgs == {"SetWorkSleepBalance", "SetTargetWorkCount", "SetBedtimePointsHalflife"}

GoalMsgs == NumericGoalMsgs \cup {"TargetBedtimeChanged", "TargetBedtimeNextDayChanged"}

\* actual_work_count of a date, 0 for a date without a record.
WorkCountOf(data, d) == IF d \in DOMAIN data THEN data[d].actual_work_count ELSE 0

\* The goals `init` sets.
InitialGoals ==
    [work_sleep_balance |-> 70, target_work_count |-> 6,
     target_bedtime |-> [time |-> 1380, next_day |-> FALSE],
     bedtime_pts_halflife |-> 30]

----------------------------------------------------------------------------
\* C1: FinishedTopTask handled while the queue is empty changes the
\* actual_work_count of no date (a date without a record counting as 0): the
\* work count grows only when a queue head was removed.
C1_NoIncrementOnEmptyQueue ==
    [][(msg'.type = "FinishedTopTask" /\ planned_work_periods = <<>>)
          => \A d \in DOMAIN Store' : WorkCountOf(Store', d) = WorkCountOf(Store, d)]_vars

\* C2: a numeric goal command whose text does not parse as an integer returns
\* normally and leaves the session state unchanged; no handler aborts.
C2_BadNumberIgnored ==
    [][(msg'.type \in NumericGoalMsgs /\ ~IsSome(ParseI64(msg'.arg)))
          => (~panicked' /\ UNCHANGED data_vars)]_vars

\* C3: the default goals and the goals snapshot of every stored record have
\* target_work_count >= 1 in every reachable state.
C3_TargetWorkCountPositive ==
    /\ default_work_sleep_goals.target_work_count >= 1
    /\ \A d \in DOMAIN Store : Store[d].goals.target_work_count >= 1

\* C4: FinishedTopTask on a non-empty queue removes exactly the head, adds
\* exactly 1 to the work count of the current date's record, creating it from
\* the default goals (no bedtime, count 1) when absent, and leaves the records
\* of all other dates as they were.
C4_FinishRemovesHeadAndCounts ==
    [][(msg'.type = "FinishedTopTask" /\ planned_work_periods # <<>>)
          => /\ Len(planned_work_periods') = Len(planned_work_periods) - 1
             /\ \A i \in 1..Len(planned_work_periods') :
                    planned_work_periods'[i] = planned_work_periods[i + 1]
             /\ current_date' = current_date
             /\ DOMAIN Store' = DOMAIN Store \cup {current_date}
             /\ \A d \in DOMAIN Store : d # current_date => Store'[d] = Store[d]
             /\ IF current_date \in DOMAIN Store
                THEN /\ Store'[current_date].actual_work_count
                           = Store[current_date].actual_work_count + 1
                     /\ Store'[current_date].goals = Store[current_date].goals
                     /\ Store'[current_date].actual_bedtime
                           = Store[current_date].actual_bedtime
                ELSE Store'[current_date] =
                        [goals |-> default_work_sleep_goals,
                         actual_work_count |-> 1,
                         actual_bedtime |-> <<>>]]_vars

\* C4 witness: a FinishedTopTask that found at least two queued tasks has
\* just created the current date's record with a work count of 1.
C4_Witness ==
    /\ msg.type = "FinishedTopTask"
    /\ planned_work_periods # <<>>
    /\ current_date \in DOMAIN Store
    /\ Store[current_date].actual_work_count = 1

\* C5: SetCurrentDate(d) sets current_date to d and week_start to d - 6 when
\* the store is empty or holds no date after d, and to d - 3 when some
\* recorded date is after d (the store as the message found it).
C5_SetCurrentDateAnchors ==
    [][msg'.type = "SetCurrentDate"
          => LET d == msg'.arg[1]
             IN  /\ current_date' = d
                 /\ WeekStart' = IF \E e \in DOMAIN Store : e > d THEN d - 3 ELSE d - 6
                 /\ Store' = Store]_vars

\* C5 witness: SetCurrentDate has just moved to a date before a recorded one
\* and anchored the window three days back.
C5_Witness ==
    /\ msg.type = "SetCurrentDate"
    /\ \E e \in DOMAIN Store : e > current_date
    /\ WeekStart = current_date - 3

\* C6: a goal command handled while d is current leaves the record of every
\* other date as it was, and adds no record at another date.
C6_GoalEditIsolatedToCurrentDate ==
    [][msg'.type \in GoalMsgs
          => /\ DOMAIN Store' \subseteq DOMAIN Store \cup {current_date}
             /\ \A e \in DOMAIN Store :
                    e # current_date => (e \in DOMAIN Store' /\ Store'[e] = Store[e])]_vars

\* C6 witness: a goal command has just changed the default goals and the
\* current date's snapshot while another date keeps an older snapshot.
C6_Witness ==
    /\ msg.type \in GoalMsgs
    /\ ~panicked
    /\ current_date \in DOMAIN Store
    /\ Store[current_date].goals = default_work_sleep_goals
    /\ \E e \in DOMAIN Store :
          e # current_date /\ Store[e].goals # default_work_sleep_goals

\* C7: FinishedTopTask and UpdateBedtime handled on a date that already has a
\* record never reset it: its goals snapshot stays, FinishedTopTask keeps its
\* bedtime and adds 1 to its count, UpdateBedtime keeps its count.
C7_ExistingRecordNotReset ==
    [][(msg'.type \in {"FinishedTopTask", "UpdateBedtime"} /\ current_date \in DOMAIN Store)
          => /\ current_date \in DOMAIN Store'
             /\ Store'[current_date].goals = Store[current_date].goals
             /\ msg'.type = "FinishedTopTask" =>
                   /\ Store'[current_date].actual_bedtime = Store[current_date].actual_bedtime
                   /\ Store'[current_date].actual_work_count
                         = Store[current_date].actual_work_count + 1
             /\ msg'.type = "UpdateBedtime" =>
                   Store'[current_date].actual_work_count
                      = Store[current_date].actual_work_count]_vars

\* C7 witness: FinishedTopTask has just acted on a record whose snapshot
\* differs from the default goals (they were changed while another date was
\* current), and the snapshot is still the initial one.
C7_Witness ==
    /\ msg.type = "FinishedTopTask"
    /\ current_date \in DOMAIN Store
    /\ Store[current_date].goals # default_work_sleep_goals
    /\ Store[current_date].goals = InitialGoals
    /\ Store[current_date].actual_work_count = 2

\* C8: a goal command never changes actual_work_count or actual_bedtime of
\* the current date's record.
C8_ResyncKeepsActuals ==
    [][(msg'.type \in GoalMsgs /\ current_date \in DOMAIN Store)
          => /\ current_date \in DOMAIN Store'
             /\ Store'[current_date].actual_work_count
                   = Store[current_date].actual_work_count
             /\ Store'[current_date].actual_bedtime
                   = Store[current_date].actual_bedtime]_vars

\* C8 witness: a goal command has just overwritten the snapshot of a record
\* that holds a work count and a bedtime.
C8_Witness ==
    /\ msg.type \in GoalMsgs
    /\ ~panicked
    /\ current_date \in DOMAIN Store
    /\ Store[current_date].goals # InitialGoals
    /\ Store[current_date].actual_work_count = 1
    /\ IsSome(Store[current_date].actual_bedtime)

\* C9: after a goal command that changed the default goals a record exists
\* at the current date and its snapshot equals the new default goals; a record
\* created by the command has work count 0 and no bedtime.
C9_ResyncAfterGoalChange ==
    [][(msg'.type \in GoalMsgs /\ default_work_sleep_goals' # default_work_sleep_goals)
          => /\ current_date' = current_date
             /\ current_date \in DOMAIN Store'
             /\ Store'[current_date].goals = default_work_sleep_goals'
             /\ current_date \notin DOMAIN Store =>
                   /\ Store'[current_date].actual_work_count = 0
                   /\ Store'[current_date].actual_bedtime = <<>>]_vars

\* C9 witness: a goal command has just created the current date's record
\* with the changed default goals, no work and no bedtime, next to a record of
\* another date.
C9_Witness ==
    /\ msg.type \in GoalMsgs
    /\ default_work_sleep_goals # InitialGoals
    /\ current_date \in DOMAIN Store
    /\ Store[current_date] =
          [goals |-> default_work_sleep_goals, actual_work_count |-> 0,
           actual_bedtime |-> <<>>]
    /\ \E e \in DOMAIN Store : e # current_date

\* C10: ViewNextWeek moves week_start forward by exactly 7 days and
\* ViewPreviousWeek back by exactly 7 days, whatever the store and the current
\* date; both leave the rest of the session state unchanged; one after the
\* other restores week_start.
C10_WeekNavigation ==
    /\ [][msg'.type = "ViewNextWeek"
            => /\ WeekStart' = WeekStart + 7
               /\ Store' = Store
               /\ UNCHANGED <<current_date, new_task, current_date_bedtime,
                              planned_work_periods, default_work_sleep_goals>>]_vars
    /\ [][msg'.type = "ViewPreviousWeek"
            => /\ WeekStart' = WeekStart - 7
               /\ Store' = Store
               /\ UNCHANGED <<current_date, new_task, current_date_bedtime,
                              planned_work_periods, default_work_sleep_goals>>]_vars
    /\ [](/\ previous_week(next_week(WeekStart)) = WeekStart
          /\ next_week(previous_week(WeekStart)) = WeekStart)

\* C10 witness: ViewNextWeek has just acted on a window that SetCurrentDate had
\* centred (a later record exists), so the window now starts 4 days after the
\* current date.
C10_Witness ==
    /\ msg.type = "ViewNextWeek"
    /\ \E e \in DOMAIN Store : e > current_date
    /\ WeekStart = current_date - 3 + 7

\* C11: every message other than SetCurrentDate, ViewNextWeek and
\* ViewPreviousWeek leaves week_start as it was, also when it adds a record
\* that changes the greatest recorded date.
C11_WeekStartOnlyMovedByDateAndNavigation ==
    [][msg'.type \notin {"SetCurrentDate", "ViewNextWeek", "ViewPreviousWeek"}
          => WeekStart' = WeekStart]_vars

\* C11 witness: FinishedTopTask has just created the first record of the store
\* while the window, moved by navigation, is not the one the anchoring policy
\* would derive from the current date.
C11_Witness ==
    /\ msg.type = "FinishedTopTask"
    /\ DOMAIN Store = {current_date}
    /\ Store[current_date].actual_work_count = 1
    /\ WeekStart # current_date - 6
    /\ WeekStart # current_date - 3

\* C12: UpdateBedtime with a bedtime text that parses as a time of day sets
\* actual_bedtime of the current date's record (created when absent) to the
\* parsed time and the buffer's next-day flag, keeping its work count and every
\* other record; with a text that does not parse the session state stays as it
\* was and no record is created.
C12_UpdateBedtime ==
    [][msg'.type = "UpdateBedtime"
          => LET time == ParseTime(current_date_bedtime.time)
             IN  IF time # <<>>
                 THEN /\ DOMAIN Store' = DOMAIN Store \cup {current_date}
                      /\ Store'[current_date].actual_bedtime =
                            <<[time |-> time[1],
                               next_day |-> current_date_bedtime.is_next_day]>>
                      /\ WorkCountOf(Store', current_date) = WorkCountOf(Store, current_date)
                      /\ \A d \in DOMAIN Store : d # current_date => Store'[d] = Store[d]
                      /\ UNCHANGED <<current_date, new_task, current_date_bedtime,
                                     planned_work_periods, default_work_sleep_goals>>
                 ELSE UNCHANGED data_vars]_vars

\* C12 witness: UpdateBedtime has just stored 00:30 with the next-day flag in
\* a record that already counted a finished task.
C12_Witness ==
    /\ msg.type = "UpdateBedtime"
    /\ current_date \in DOMAIN Store
    /\ Store[current_date].actual_bedtime = <<[time |-> 30, next_day |-> TRUE]>>
    /\ Store[current_date].actual_work_count = 1

\* C13: the current-week query yields exactly 7 pairs whose dates are
\* week_start, week_start + 1, .., week_start + 6 in order, each carrying the
\* store's record of its date if the store has one and nothing otherwise.
C13_CurrentWeek ==
    LET week == get_current_week(work_sleep_data)
    IN  /\ DOMAIN week = 1..7
        /\ \A i \in 1..7 :
              /\ week[i][1] = WeekStart + i - 1
              /\ IF week[i][1] \in DOMAIN Store
                 THEN week[i][2] = <<Store[week[i][1]]>>
                 ELSE week[i][2] = <<>>

\* C13 witness: after navigating away and back the window ends on the one
\* recorded date: its first six pairs carry nothing, its seventh the record.
C13_Witness ==
    /\ msg.type = "ViewNextWeek"
    /\ DOMAIN Store = {WeekStart + 6}
    /\ get_current_week(work_sleep_data)[1][2] = <<>>
    /\ get_current_week(work_sleep_data)[7][2] # <<>>

\* The record of the current date (the one ScoreSpec computes on).
CurrentRecord == Store[current_date]

\* C14: abs_diff(a, b) is the absolute difference, in minutes, of the two
\* times each moved forward by 1440 minutes when its next_day flag is set; it
\* is symmetric, 0 from a value to itself, and 90 from {00:30, next day} to
\* {23:00, same day}.
C14_AbsDiff ==
    IsSome(CurrentRecord.actual_bedtime) =>
        LET a == CurrentRecord.actual_bedtime[1]
            b == CurrentRecord.goals.target_bedtime
            at == IF a.next_day THEN a.time + 1440 ELSE a.time
            bt == IF b.next_day THEN b.time + 1440 ELSE b.time
            d == IF at >= bt THEN at - bt ELSE bt - at
        IN  /\ abs_diff(a, b) = d
            /\ abs_diff(b, a) = abs_diff(a, b)
            /\ abs_diff(a, a) = 0
            /\ abs_diff(b, b) = 0
            /\ (a = [time |-> 30, next_day |-> TRUE] /\ b = [time |-> 1380, next_day |-> FALSE])
                  => abs_diff(a, b) = 90
            /\ msg.type = "show_score_calc" => msg.arg[5] = d

\* C14 witness: the score breakdown shows 90 minutes between an actual
\* bedtime of 00:30 on the next day and a target of 23:00.
C14_Witness ==
    /\ msg.type = "show_score_calc"
    /\ CurrentRecord.actual_bedtime = <<[time |-> 30, next_day |-> TRUE]>>
    /\ CurrentRecord.goals.target_bedtime = [time |-> 1380, next_day |-> FALSE]
    /\ msg.arg[5] = 90

\* C15: for a record without a bedtime (target_work_count > 0) the sleep term
\* is 0 and calc_score is actual_work_count * work_sleep_balance /
\* target_work_count rounded to the nearest integer, halves away from zero;
\* balance 70, target 6, actual 6 gives 70.
C15_ScoreWithoutBedtime ==
    (msg.type = "calc_score" /\ ~IsSome(CurrentRecord.actual_bedtime)
        /\ CurrentRecord.goals.target_work_count > 0) =>
        LET p == CurrentRecord.actual_work_count * CurrentRecord.goals.work_sleep_balance
            t == CurrentRecord.goals.target_work_count
            score == msg.arg[1]
            off == IF p >= score * t THEN p - score * t ELSE score * t - p
        IN  /\ sleep_score(CurrentRecord)[1] = 0
            /\ 2 * off <= t
            /\ 2 * off = t => (IF p >= 0 THEN score * t > p ELSE score * t < p)
            /\ (p = 6 * 70 /\ t = 6) => score = 70

\* C15 witness: the view has just computed 18 for 1 * 70 / 4 = 17.5 without
\* a bedtime.
C15_Witness ==
    /\ msg.type = "calc_score"
    /\ ~IsSome(CurrentRecord.actual_bedtime)
    /\ CurrentRecord.actual_work_count = 1
    /\ CurrentRecord.goals.work_sleep_balance = 70
    /\ CurrentRecord.goals.target_work_count = 4
    /\ msg.arg[1] = 18

\* C16: for a record whose bedtime is k half-lives from the target (k a whole
\* number, half-life > 0) the sleep term is (100 - balance) / 2^k and
\* calc_score is the work term plus it, rounded: on target (k = 0) with
\* balance 70 and 6 of 6 work periods the score is 100, at one half-life the
\* sleep term is half of 100 - balance.
C16_SleepTermHalves ==
    (IsSome(CurrentRecord.actual_bedtime) /\ WholeHalvings(CurrentRecord)) =>
        LET g == CurrentRecord.goals
            dist == abs_diff(CurrentRecord.actual_bedtime[1], g.target_bedtime)
            k == dist \div g.bedtime_pts_halflife
            term == sleep_score(CurrentRecord)
            t == g.target_work_count
            \* (work + sleep) as num / den with den = t * 2^k
            num == CurrentRecord.actual_work_count * g.work_sleep_balance * (2 ^ k)
                      + (100 - g.work_sleep_balance) * t
            den == t * (2 ^ k)
        IN  /\ term[1] * (2 ^ k) = (100 - g.work_sleep_balance) * term[2]
            /\ k = 0 => term[1] = (100 - g.work_sleep_balance) * term[2]
            /\ k = 1 => 2 * term[1] = (100 - g.work_sleep_balance) * term[2]
            /\ msg.type = "calc_score" =>
                  LET score == msg.arg[1]
                      off == IF num >= score * den THEN num - score * den
                             ELSE score * den - num
                  IN  /\ 2 * off <= den
                      /\ 2 * off = den =>
                            (IF num >= 0 THEN score * den > num ELSE score * den < num)
                      /\ (k = 0 /\ g.work_sleep_balance = 70 /\ t = 6
                             /\ CurrentRecord.actual_work_count = 6) => score = 100

\* C16 witness: the view has just computed 85 for balance 70, 6 of 6 work
\* periods and a bedtime one half-life (30 minutes) before the target.
C16_Witness ==
    /\ msg.type = "calc_score"
    /\ CurrentRecord.goals.work_sleep_balance = 70
    /\ CurrentRecord.goals.target_work_count = 6
    /\ CurrentRecord.actual_work_count = 6
    /\ CurrentRecord.goals.bedtime_pts_halflife = 30
    /\ CurrentRecord.goals.target_bedtime = [time |-> 1380, next_day |-> FALSE]
    /\ CurrentRecord.actual_bedtime = <<[time |-> 1350, next_day |-> FALSE]>>
    /\ msg.arg[1] = 85

\* The identifiers of a queue, in order.
IdsOf(q) == [i \in 1..Len(q) |-> q[i].id]

\* The index of the entry of q with identifier id, 0 when there is none.
IndexOf(q, id) ==
    IF \E i \in 1..Len(q) : q[i].id = id
    THEN CHOOSE i \in 1..Len(q) : q[i].id = id
    ELSE 0

\* C17: AddNewTask with a quantity text that parses to n >= 0 appends exactly
\* n entries, each with the name buffer's value and an identifier distinct from
\* every other one in the queue, the entries queued before keeping their
\* positions; a text that does not parse appends exactly 1; the store, the
\* goals, the current date and week_start are unchanged.
C17_AddNewTaskAppends ==
    [][msg'.type = "AddNewTask"
          => LET parsed == ParseI64(new_task.quantity)
                 n == IF parsed = <<>> THEN 1 ELSE parsed[1]
                 old == planned_work_periods
                 new == planned_work_periods'
             IN  n >= 0 =>
                   /\ Len(new) = Len(old) + n
                   /\ \A i \in 1..Len(old) : new[i] = old[i]
                   /\ \A i \in (Len(old) + 1)..Len(new) : new[i].name = new_task.name
                   /\ \A i, j \in 1..Len(new) : i # j => new[i].id # new[j].id
                   /\ UNCHANGED <<current_date, default_work_sleep_goals, work_sleep_data>>]_vars

\* C17 witness: AddNewTask with quantity "2" and name "a" has just appended
\* two entries behind one queued earlier under another name.
C17_Witness ==
    /\ msg.type = "AddNewTask"
    /\ new_task = [name |-> <<"a">>, quantity |-> <<"2">>]
    /\ planned_work_periods =
          <<[id |-> 1, name |-> <<>>], [id |-> 2, name |-> <<"a">>],
            [id |-> 3, name |-> <<"a">>]>>

\* C18: MoveTaskToTop(id) with id in the queue puts that entry at the head
\* and keeps all other entries in their order; with the entry already at the
\* head the queue is unchanged; handling it a second time changes nothing.
C18_MoveTaskToTop ==
    [][msg'.type = "MoveTaskToTop"
          => LET id == msg'.arg[1]
                 old == planned_work_periods
                 new == planned_work_periods'
                 i == IndexOf(old, id)
             IN  i > 0 =>
                   /\ Len(new) = Len(old)
                   /\ new[1] = old[i]
                   /\ \A j \in 2..Len(new) : new[j] = IF j <= i THEN old[j - 1] ELSE old[j]
                   /\ i = 1 => new = old
                   /\ move_to_top(new, id) = new]_vars

\* C18 witness: MoveTaskToTop has just brought the third of four entries to
\* the head.
C18_Witness ==
    /\ msg = [type |-> "MoveTaskToTop", arg |-> <<3>>]
    /\ IdsOf(planned_work_periods) = <<3, 1, 2, 4>>

\* C19: MoveTaskUp(id) with the entry at an index after the head exchanges it
\* with its predecessor and leaves every other position as it was; with the
\* entry at the head the queue is unchanged.
C19_MoveTaskUp ==
    [][msg'.type = "MoveTaskUp"
          => LET id == msg'.arg[1]
                 old == planned_work_periods
                 new == planned_work_periods'
                 i == IndexOf(old, id)
             IN  /\ i > 1 =>
                       /\ Len(new) = Len(old)
                       /\ \A j \in 1..Len(new) :
                             new[j] = IF j = i - 1 THEN old[i]
                                      ELSE IF j = i THEN old[i - 1] ELSE old[j]
                 /\ i = 1 => new = old]_vars

\* C19 witness: MoveTaskUp has just moved the third of four entries one
\* place up, not to the head.
C19_Witness ==
    /\ msg = [type |-> "MoveTaskUp", arg |-> <<3>>]
    /\ IdsOf(planned_work_periods) = <<1, 3, 2, 4>>

\* C20: DeleteTask(id) with id in the queue removes that entry, keeps the
\* order of the others and touches no record; DeleteTask, MoveTaskToTop and
\* MoveTaskUp with an id that is not in the queue leave the session state
\* unchanged.
C20_DeleteTaskAndMissingIds ==
    [][msg'.type \in {"DeleteTask", "MoveTaskToTop", "MoveTaskUp"}
          => LET id == msg'.arg[1]
                 old == planned_work_periods
                 new == planned_work_periods'
                 i == IndexOf(old, id)
             IN  /\ (msg'.type = "DeleteTask" /\ i > 0) =>
                       /\ Len(new) = Len(old) - 1
                       /\ \A j \in 1..Len(new) : new[j] = IF j < i THEN old[j] ELSE old[j + 1]
                       /\ work_sleep_data' = work_sleep_data
                 /\ i = 0 => UNCHANGED data_vars]_vars

\* C20 witness: DeleteTask has just removed the head of a queue of two and
\* no record exists.
C20_Witness ==
    /\ msg = [type |-> "DeleteTask", arg |-> <<1>>]
    /\ IdsOf(planned_work_periods) = <<2>>
    /\ DOMAIN Store = {}

====
